---- MODULE Spec2Model ----
(***************************************************************************)
(* Model of the habitat supervisor configuration (components/sup/src/      *)
(* config.rs) and of its predecessor, the bldr configuration               *)
(* (src/bldr/config.rs): the global configuration cache gcache()/gconfig(),*)
(* the validated gossip listen address, the peer list normalisation of     *)
(* set_gossip_peer, Command parsing and the Config builder.                *)
(*                                                                         *)
(* Text is modelled as a sequence of one-character strings, so that        *)
(* searching, appending, formatting and parsing are computed character by  *)
(* character as the code does.                                             *)
(***************************************************************************)
EXTENDS Integers, Sequences, FiniteSets, TLC

\* ------------------------------------------------------------------------
\* Bounds of the model
\* ------------------------------------------------------------------------
MaxCalls == 5
MaxOps == 3
MaxPeers == 2
MaxPeerLen == 2
MaxGroups == 5
MaxCmdLen == 4

\* ------------------------------------------------------------------------
\* Text helpers
\* ------------------------------------------------------------------------
Digits == <<"0", "1", "2", "3", "4", "5", "6", "7", "8", "9">>

IsDigit(ch) == \E i \in 1..10 : Digits[i] = ch

DigitVal(ch) == (CHOOSE i \in 1..10 : Digits[i] = ch) - 1

\* Option<T>: None is the empty sequence, Some(v) the one-element sequence.
None == <<>>

Some(v) == <<v>>

\* Decimal rendering of a non-negative integer, as the "{}" of format!.
RECURSIVE ToDecimal(_)
ToDecimal(n) ==
    IF n < 10 THEN <<Digits[n + 1]>>
    ELSE ToDecimal(n \div 10) \o <<Digits[(n % 10) + 1]>>

\* str::find(ch): the index of the first occurrence, 0 when there is none.
RECURSIVE find_from(_, _, _)
find_from(p, ch, i) ==
    IF i > Len(p) THEN 0
    ELSE IF p[i] = ch THEN i
    ELSE find_from(p, ch, i + 1)

find(p, ch) == find_from(p, ch, 1)

push_str(p, s) == p \o s

\* ------------------------------------------------------------------------
\* Gossip listen address
\* ------------------------------------------------------------------------
GossipDefaultPort == 9638

Ipv4Addr_new(a, b, c, d) == <<a, b, c, d>>

SocketAddr_new(ip, port) == [ip |-> ip, port |-> port]

GossipListenAddr_default == SocketAddr_new(Ipv4Addr_new(0, 0, 0, 0), GossipDefaultPort)

set_ip(addr, ip) == [addr EXCEPT !.ip = ip]

set_port(addr, port) == [addr EXCEPT !.port = port]

\* The address parser of std::net, as called by from_str: a cursor over the
\* text; every reader returns [ok, val, pos].
ParseFail(pos) == [ok |-> FALSE, val |-> 0, pos |-> pos]

RECURSIVE read_number_loop(_, _, _, _, _, _)
read_number_loop(s, pos, r, digit_count, max_digits, upto) ==
    IF pos <= Len(s) /\ IsDigit(s[pos])
    THEN LET r2 == r * 10 + DigitVal(s[pos])
         IN IF digit_count + 1 > max_digits \/ r2 >= upto
            THEN ParseFail(pos)
            ELSE read_number_loop(s, pos + 1, r2, digit_count + 1, max_digits, upto)
    ELSE IF digit_count = 0 THEN ParseFail(pos)
    ELSE [ok |-> TRUE, val |-> r, pos |-> pos]

read_number(s, pos, max_digits, upto) ==
    read_number_loop(s, pos, 0, 0, max_digits, upto)

read_given_char(s, pos, ch) ==
    IF pos <= Len(s) /\ s[pos] = ch
    THEN [ok |-> TRUE, val |-> 0, pos |-> pos + 1]
    ELSE ParseFail(pos)

RECURSIVE read_ipv4_loop(_, _, _, _)
read_ipv4_loop(s, pos, i, bs) ==
    IF i = 4 THEN [ok |-> TRUE, val |-> bs, pos |-> pos]
    ELSE LET dot == IF i # 0 THEN read_given_char(s, pos, ".")
                    ELSE [ok |-> TRUE, val |-> 0, pos |-> pos]
         IN IF ~dot.ok THEN ParseFail(pos)
            ELSE LET octet == read_number(s, dot.pos, 3, 256)
                 IN IF ~octet.ok THEN ParseFail(pos)
                    ELSE read_ipv4_loop(s, octet.pos, i + 1, Append(bs, octet.val))

read_ipv4_addr(s, pos) == read_ipv4_loop(s, pos, 0, <<>>)

\* SocketAddr::from_str for the IPv4 form "a.b.c.d:port", read to the end.
SocketAddr_from_str(s) ==
    LET ip == read_ipv4_addr(s, 1)
    IN IF ~ip.ok THEN ParseFail(1)
       ELSE LET colon == read_given_char(s, ip.pos, ":")
            IN IF ~colon.ok THEN ParseFail(1)
               ELSE LET port == read_number(s, colon.pos, 5, 65536)
                    IN IF port.ok /\ port.pos = Len(s) + 1
                       THEN [ok |-> TRUE, val |-> SocketAddr_new(ip.val, port.val),
                             pos |-> port.pos]
                       ELSE ParseFail(1)

\* IpAddr::from_str for the IPv4 form "a.b.c.d", read to the end.
IpAddr_from_str(s) ==
    LET ip == read_ipv4_addr(s, 1)
    IN IF ip.ok /\ ip.pos = Len(s) + 1 THEN ip ELSE ParseFail(1)

Ok(v) == [ok |-> TRUE, val |-> v]

Err(e) == [ok |-> FALSE, err |-> e]

GossipListenAddr_from_str_noDefault(val) ==
    LET sa == SocketAddr_from_str(val)
    IN IF sa.ok THEN Ok(sa.val) ELSE Err("IPFailed")

GossipListenAddr_from_str(val) ==
    LET sa == SocketAddr_from_str(val)
    IN IF sa.ok THEN Ok(sa.val)
       ELSE LET ip == IpAddr_from_str(val)
            IN IF ip.ok THEN Ok(set_ip(GossipListenAddr_default, ip.val))
               ELSE Err("IPFailed")

\* ------------------------------------------------------------------------
\* Command
\* ------------------------------------------------------------------------
Command == {"Start", "ShellBash", "ShellSh"}

LitBash == <<"b", "a", "s", "h">>

LitSh == <<"s", "h">>

LitStart == <<"s", "t", "a", "r", "t">>

Command_from_str_swapped(s) ==
    IF s = LitBash THEN Ok("ShellSh")
    ELSE IF s = LitSh THEN Ok("ShellBash")
    ELSE IF s = LitStart THEN Ok("Start")
    ELSE Err("CommandNotImplemented")

Command_from_str(s) ==
    IF s = LitBash THEN Ok("ShellBash")
    ELSE IF s = LitSh THEN Ok("ShellSh")
    ELSE IF s = LitStart THEN Ok("Start")
    ELSE Err("CommandNotImplemented")

Command_default_bash == "ShellBash"

Command_default == "Start"

\* ------------------------------------------------------------------------
\* Supervisor Config (components/sup/src/config.rs)
\* Opaque text (url, group, ...) is a TLA+ string; peer entries, which the
\* code inspects character by character, are character sequences.
\* ------------------------------------------------------------------------
HttpDefaultPort == 9631

ListenAddr_default == SocketAddr_new(Ipv4Addr_new(0, 0, 0, 0), HttpDefaultPort)

PackageIdent_default == "PackageIdent::default"

Topology_default == "Standalone"

UpdateStrategy_default == "None"

Config_new ==
    [http_listen_addr |-> ListenAddr_default,
     gossip_listen |-> GossipListenAddr_default,
     command |-> Command_default,
     package |-> PackageIdent_default,
     local_artifact |-> None,
     url |-> "",
     topology |-> Topology_default,
     group |-> "",
     bind |-> <<>>,
     gossip_peer |-> <<>>,
     gossip_permanent |-> FALSE,
     update_strategy |-> UpdateStrategy_default,
     organization |-> None,
     ring |-> None,
     config_from |-> None]

set_config_from(self, config_from) == [self EXCEPT !.config_from = config_from]

config_from(self) == self.config_from

set_update_strategy(self, strat) == [self EXCEPT !.update_strategy = strat]

update_strategy(self) == self.update_strategy

set_command(self, command) == [self EXCEPT !.command = command]

command(self) == self.command

set_group(self, group) == [self EXCEPT !.group = group]

group(self) == self.group

set_bind(self, bind) == [self EXCEPT !.bind = bind]

bind(self) == self.bind

set_url_into_group(self, url) == [self EXCEPT !.group = url]

set_url(self, url) == [self EXCEPT !.url = url]

url(self) == self.url

set_topology(self, topology) == [self EXCEPT !.topology = topology]

topology(self) == self.topology

gossip_listen(self) == self.gossip_listen

set_gossip_listen(self, gl) == [self EXCEPT !.gossip_listen = gl]

http_listen_addr(self) == self.http_listen_addr

set_http_listen_ip(self, ip) ==
    [self EXCEPT !.http_listen_addr = set_ip(self.http_listen_addr, ip)]

set_http_listen_port(self, port) ==
    [self EXCEPT !.http_listen_addr = set_port(self.http_listen_addr, port)]

gossip_permanent(self) == self.gossip_permanent

set_gossip_permanent(self, p) == [self EXCEPT !.gossip_permanent = p]

gossip_peer(self) == self.gossip_peer

\* format!(":{}", 9638)
PortSuffix == <<":">> \o ToDecimal(GossipDefaultPort)

set_gossip_peer_always(self, gp) ==
    [self EXCEPT !.gossip_peer =
        [i \in 1..Len(gp) |-> push_str(gp[i], PortSuffix)]]

set_gossip_peer(self, gp) ==
    [self EXCEPT !.gossip_peer =
        [i \in 1..Len(gp) |->
            IF find(gp[i], ":") = 0
            THEN push_str(gp[i], PortSuffix)
            ELSE gp[i]]]

set_package(self, ident) == [self EXCEPT !.package = ident]

package(self) == self.package

set_local_artifact(self, artifact) == [self EXCEPT !.local_artifact = Some(artifact)]

local_artifact(self) == self.local_artifact

set_organization(self, org) == [self EXCEPT !.organization = Some(org)]

organization(self) == self.organization

set_ring(self, ring) == [self EXCEPT !.ring = Some(ring)]

ring(self) == self.ring

\* ------------------------------------------------------------------------
\* bldr Config (src/bldr/config.rs)
\* ------------------------------------------------------------------------
BldrCommand_default == "Install"

BldrConfig_new ==
    [command |-> BldrCommand_default,
     package |-> "",
     url |-> "",
     topology |-> "",
     group |-> "",
     path |-> "",
     deriv |-> "",
     version |-> "",
     release |-> "",
     watch |-> <<>>,
     key |-> ""]

bldr_set_command(self, v) == [self EXCEPT !.command = v]

bldr_command(self) == self.command

bldr_set_key(self, v) == [self EXCEPT !.key = v]

bldr_key(self) == self.key

bldr_set_package(self, v) == [self EXCEPT !.package = v]

bldr_package(self) == self.package

bldr_set_deriv(self, v) == [self EXCEPT !.deriv = v]

bldr_deriv(self) == self.deriv

bldr_set_version(self, v) == [self EXCEPT !.version = v]

bldr_version(self) == self.version

bldr_set_release(self, v) == [self EXCEPT !.release = v]

bldr_release(self) == self.release

bldr_set_path(self, v) == [self EXCEPT !.path = v]

bldr_path(self) == self.path

bldr_set_group(self, v) == [self EXCEPT !.group = v]

bldr_group(self) == self.group

bldr_set_watch(self, v) == [self EXCEPT !.watch = v]

bldr_watch(self) == self.watch

bldr_set_url(self, v) == [self EXCEPT !.url = v]

bldr_url(self) == self.url

bldr_set_topology(self, v) == [self EXCEPT !.topology = v]

bldr_topology(self) == self.topology

\* ------------------------------------------------------------------------
\* State
\* ------------------------------------------------------------------------
VARIABLES
    CONFIG,     \* static mut CONFIG: the raw pointer, 0 is null
    ONCE,       \* state of the static ONCE inside gcache
    heap,       \* boxed Config values by address
    pc,         \* position of every thread
    arg,        \* the Config a thread passed to gcache
    boxp,       \* the address of the Box a thread's closure allocated
    ncalls,     \* number of gcache and gconfig calls started so far
    reads,      \* history: what every completed gconfig() observed
    stored,     \* history: the threads whose closure stored into CONFIG
    returned,   \* history: number of gcache calls that have returned
    passed,     \* history: the Configs passed to gcache so far
    prog,       \* which Config is being built: "sup" or "bldr"
    cfg,        \* the supervisor Config being built
    bcfg,       \* the bldr Config being built
    log,        \* history: the setter calls made so far, in order
    peerIn,     \* argument of set_gossip_peer
    peerPc,
    addrIn,     \* argument of GossipListenAddr::from_str
    addrOut,
    addrPc,
    cmdIn,      \* argument of Command::from_str
    cmdOut,
    cmdPc

cacheVars ==
    <<CONFIG, ONCE, heap, pc, arg, boxp, ncalls, reads, stored, returned, passed>>

builderVars == <<prog, cfg, bcfg, log>>

peerVars == <<peerIn, peerPc>>

addrVars == <<addrIn, addrOut, addrPc>>

cmdVars == <<cmdIn, cmdOut, cmdPc>>

vars == <<cacheVars, builderVars, peerVars, addrVars, cmdVars>>

\* ------------------------------------------------------------------------
\* Building a Config: one action per setter
\* ------------------------------------------------------------------------
P_10_0_0_1 == <<"1", "0", ".", "0", ".", "0", ".", "1">>

P_10_0_0_2_8000 == <<"1", "0", ".", "0", ".", "0", ".", "2", ":", "8", "0", "0", "0">>

P_v6_loopback == <<":", ":", "1">>

OptionValues == {None, Some("/hab/conf")}

UpdateStrategyValues == {"None", "AtOnce"}

TextValues == {"http://foolio.com", "foolio"}

BindValues == {<<>>, <<"db:redis.default">>}

TopologyValues == {"Standalone", "Leader"}

GossipListenValues ==
    {GossipListenAddr_default, SocketAddr_new(Ipv4Addr_new(192, 168, 1, 5), 4444)}

IpValues == {Ipv4Addr_new(127, 0, 0, 1), Ipv4Addr_new(10, 0, 0, 7)}

PortValues == {8080, 9631}

GossipPeerValues == {<<P_10_0_0_1, P_10_0_0_2_8000>>, <<P_v6_loopback>>}

BldrCommandValues == {"Install", "Start"}

SupStep(f, v, new) ==
    /\ prog = "sup"
    /\ Len(log) < MaxOps
    /\ cfg' = new
    /\ log' = Append(log, [f |-> f, v |-> v])
    /\ UNCHANGED <<prog, bcfg, cacheVars, peerVars, addrVars, cmdVars>>

BldrStep(f, v, new) ==
    /\ prog = "bldr"
    /\ Len(log) < MaxOps
    /\ bcfg' = new
    /\ log' = Append(log, [f |-> f, v |-> v])
    /\ UNCHANGED <<prog, cfg, cacheVars, peerVars, addrVars, cmdVars>>

SetConfigFrom == \E v \in OptionValues : SupStep("set_config_from", v, set_config_from(cfg, v))

SetUpdateStrategy ==
    \E v \in UpdateStrategyValues :
        SupStep("set_update_strategy", v, set_update_strategy(cfg, v))

SetCommand == \E v \in Command : SupStep("set_command", v, set_command(cfg, v))

SetGroup == \E v \in TextValues : SupStep("set_group", v, set_group(cfg, v))

SetBind == \E v \in BindValues : SupStep("set_bind", v, set_bind(cfg, v))

SetUrl == \E v \in TextValues : SupStep("set_url", v, set_url(cfg, v))

SetTopology == \E v \in TopologyValues : SupStep("set_topology", v, set_topology(cfg, v))

SetGossipListen ==
    \E v \in GossipListenValues : SupStep("set_gossip_listen", v, set_gossip_listen(cfg, v))

SetHttpListenIp ==
    \E v \in IpValues : SupStep("set_http_listen_ip", v, set_http_listen_ip(cfg, v))

SetHttpListenPort ==
    \E v \in PortValues : SupStep("set_http_listen_port", v, set_http_listen_port(cfg, v))

SetGossipPermanent ==
    \E v \in BOOLEAN : SupStep("set_gossip_permanent", v, set_gossip_permanent(cfg, v))

SetGossipPeer ==
    \E v \in GossipPeerValues : SupStep("set_gossip_peer", v, set_gossip_peer(cfg, v))

SetPackage == \E v \in TextValues : SupStep("set_package", v, set_package(cfg, v))

SetLocalArtifact ==
    \E v \in TextValues : SupStep("set_local_artifact", v, set_local_artifact(cfg, v))

SetOrganization ==
    \E v \in TextValues : SupStep("set_organization", v, set_organization(cfg, v))

SetRing == \E v \in TextValues : SupStep("set_ring", v, set_ring(cfg, v))

BldrSetCommand ==
    \E v \in BldrCommandValues : BldrStep("set_command", v, bldr_set_command(bcfg, v))

BldrSetKey == \E v \in TextValues : BldrStep("set_key", v, bldr_set_key(bcfg, v))

BldrSetPackage == \E v \in TextValues : BldrStep("set_package", v, bldr_set_package(bcfg, v))

BldrSetDeriv == \E v \in TextValues : BldrStep("set_deriv", v, bldr_set_deriv(bcfg, v))

BldrSetVersion == \E v \in TextValues : BldrStep("set_version", v, bldr_set_version(bcfg, v))

BldrSetRelease == \E v \in TextValues : BldrStep("set_release", v, bldr_set_release(bcfg, v))

BldrSetPath == \E v \in TextValues : BldrStep("set_path", v, bldr_set_path(bcfg, v))

BldrSetGroup == \E v \in TextValues : BldrStep("set_group", v, bldr_set_group(bcfg, v))

BldrSetWatch == \E v \in BindValues : BldrStep("set_watch", v, bldr_set_watch(bcfg, v))

BldrSetUrl == \E v \in TextValues : BldrStep("set_url", v, bldr_set_url(bcfg, v))

BldrSetTopology ==
    \E v \in TextValues : BldrStep("set_topology", v, bldr_set_topology(bcfg, v))

\* A chained expression c.set_a(x).set_b(y)...: every setter returns the
\* receiver, on which the next setter of the chain is called.
ApplySetter(c, op) ==
    CASE op.f = "set_config_from" -> set_config_from(c, op.v)
      [] op.f = "set_update_strategy" -> set_update_strategy(c, op.v)
      [] op.f = "set_command" -> set_command(c, op.v)
      [] op.f = "set_group" -> set_group(c, op.v)
      [] op.f = "set_bind" -> set_bind(c, op.v)
      [] op.f = "set_url" -> set_url(c, op.v)
      [] op.f = "set_topology" -> set_topology(c, op.v)
      [] op.f = "set_gossip_listen" -> set_gossip_listen(c, op.v)
      [] op.f = "set_http_listen_ip" -> set_http_listen_ip(c, op.v)
      [] op.f = "set_http_listen_port" -> set_http_listen_port(c, op.v)
      [] op.f = "set_gossip_permanent" -> set_gossip_permanent(c, op.v)
      [] op.f = "set_gossip_peer" -> set_gossip_peer(c, op.v)
      [] op.f = "set_package" -> set_package(c, op.v)
      [] op.f = "set_local_artifact" -> set_local_artifact(c, op.v)
      [] op.f = "set_organization" -> set_organization(c, op.v)
      [] op.f = "set_ring" -> set_ring(c, op.v)

BldrApplySetter(c, op) ==
    CASE op.f = "set_command" -> bldr_set_command(c, op.v)
      [] op.f = "set_key" -> bldr_set_key(c, op.v)
      [] op.f = "set_package" -> bldr_set_package(c, op.v)
      [] op.f = "set_deriv" -> bldr_set_deriv(c, op.v)
      [] op.f = "set_version" -> bldr_set_version(c, op.v)
      [] op.f = "set_release" -> bldr_set_release(c, op.v)
      [] op.f = "set_path" -> bldr_set_path(c, op.v)
      [] op.f = "set_group" -> bldr_set_group(c, op.v)
      [] op.f = "set_watch" -> bldr_set_watch(c, op.v)
      [] op.f = "set_url" -> bldr_set_url(c, op.v)
      [] op.f = "set_topology" -> bldr_set_topology(c, op.v)

RECURSIVE Chained(_, _)
Chained(c, ops) ==
    IF ops = <<>> THEN c
    ELSE Chained(ApplySetter(c, Head(ops)), Tail(ops))

RECURSIVE BldrChained(_, _)
BldrChained(c, ops) ==
    IF ops = <<>> THEN c
    ELSE BldrChained(BldrApplySetter(c, Head(ops)), Tail(ops))

\* ------------------------------------------------------------------------
\* Inputs of the text operations
\* ------------------------------------------------------------------------
StringsOver(alphabet, n) == UNION {[1..k -> alphabet] : k \in 0..n}

PeerAlphabet == {"h", ":", "7"}

P_bracketed_v6 == <<"[", ":", ":", "1", "]", ":", "8", "0">>

P_malformed == <<"n", "o", " ", "h", "o", "s", "t", "!">>

PeerStrings ==
    StringsOver(PeerAlphabet, MaxPeerLen)
        \cup {P_10_0_0_1, P_10_0_0_2_8000, P_v6_loopback, P_bracketed_v6, P_malformed}

PeerLists == UNION {[1..k -> PeerStrings] : k \in 0..MaxPeers}

\* A listen address text is put together from groups separated by '.' and an
\* optional ':' and port text; raw texts are taken as they are.
OctetTexts == {<<"1", "9", "2">>, <<"5">>, <<"2", "5", "5">>, <<"2", "5", "6">>, <<>>}

PortTexts ==
    {<<"4", "4", "4", "4">>, <<"0">>, <<"6", "5", "5", "3", "5">>,
     <<"6", "5", "5", "3", "6">>, <<>>, <<"x">>}

RECURSIVE JoinGroups(_)
JoinGroups(gs) ==
    IF Len(gs) = 0 THEN <<>>
    ELSE IF Len(gs) = 1 THEN gs[1]
    ELSE gs[1] \o <<".">> \o JoinGroups(Tail(gs))

AddrText(in) ==
    IF in.raw THEN in.text
    ELSE JoinGroups(in.groups) \o (IF in.port = None THEN <<>> ELSE <<":">> \o in.port[1])

A_not_an_ip == <<"n", "o", "t", "-", "a", "n", "-", "i", "p", ":", ":", ":">>

A_trailing_space == <<"1", ".", "1", ".", "1", ".", "1", " ">>

A_hostname_port == <<"h", "o", "s", "t", ":", "8", "0">>

RawAddrTexts == {A_not_an_ip, A_trailing_space, A_hostname_port}

ExampleGroups ==
    {<<<<"1", "9", "2">>, <<"1", "6", "8">>, <<"1">>, <<"5">>>>,
     <<<<"0">>, <<"0">>, <<"0">>, <<"0">>>>,
     <<<<"1">>, <<"x">>, <<"1">>, <<"1">>>>,
     <<<<"1", "0", "0", "0">>, <<"1">>, <<"1">>, <<"1">>>>}

AddrInputs ==
    {[raw |-> FALSE, groups |-> gs, port |-> p, text |-> <<>>] :
        gs \in (UNION {[1..k -> OctetTexts] : k \in 1..MaxGroups}) \cup ExampleGroups,
        p \in {None} \cup {Some(t) : t \in PortTexts}}
    \cup {[raw |-> TRUE, groups |-> <<>>, port |-> None, text |-> t] : t \in RawAddrTexts}

CmdAlphabet == {"s", "h", "b", "a"}

CmdInputs ==
    StringsOver(CmdAlphabet, MaxCmdLen)
        \cup {<<"s", "t", "a", "r", "t">>, <<"S", "t", "a", "r", "t">>,
              <<"z", "z", "z">>, <<"B", "A", "S", "H">>, <<"s", "h", " ">>,
              <<"s", "t", "a", "r", "t", "s">>}

\* ------------------------------------------------------------------------
\* The global cache: gcache() and gconfig() called from several threads
\* ------------------------------------------------------------------------
Threads == {"t1", "t2", "t3"}

Null == 0

CfgA ==
    Chained(Config_new,
            <<[f |-> "set_url", v |-> "http://a.example"],
              [f |-> "set_group", v |-> "alpha"],
              [f |-> "set_topology", v |-> "Leader"]>>)

CfgB ==
    Chained(Config_new,
            <<[f |-> "set_url", v |-> "http://b.example"],
              [f |-> "set_group", v |-> "beta"],
              [f |-> "set_gossip_permanent", v |-> TRUE]>>)

Configs == {CfgA, CfgB}

\* What is behind a pointer: a Box that has been allocated and not yet
\* written, a Box holding a Config, or nothing at all behind address 0.
Uninit == [kind |-> "uninit", of |-> None]

Formed(c) == [kind |-> "config", of |-> Some(c)]

NullDeref == [kind |-> "null_deref", of |-> None]

\* Box::new(config): what the allocation holds once config has moved in.
Box_new_dangling(config) == Uninit

Box_new(config) == Formed(config)

\* Once::call_once: what a caller does in each state of the Once.
call_once_rerun(once) ==
    CASE once = "INCOMPLETE" -> "run"
      [] once = "RUNNING" -> "wait"
      [] once = "COMPLETE" -> "run"

call_once_nowait(once) ==
    CASE once = "INCOMPLETE" -> "run"
      [] once = "RUNNING" -> "skip"
      [] once = "COMPLETE" -> "skip"

call_once(once) ==
    CASE once = "INCOMPLETE" -> "run"
      [] once = "RUNNING" -> "wait"
      [] once = "COMPLETE" -> "skip"

\* gconfig's body, unsafe { &*CONFIG }: no check, the reference has the
\* address that was read.
gconfig_checked(ptr) == [err |-> ptr = Null, ref |-> ptr]

gconfig(ptr) == [err |-> FALSE, ref |-> ptr]

GcacheCall(t, c) ==
    /\ pc[t] = "idle"
    /\ ncalls < MaxCalls
    /\ ncalls' = ncalls + 1
    /\ arg' = [arg EXCEPT ![t] = Some(c)]
    /\ passed' = passed \cup {c}
    /\ pc' = [pc EXCEPT ![t] = "call_once"]
    /\ UNCHANGED <<CONFIG, ONCE, heap, boxp, reads, stored, returned>>
    /\ UNCHANGED <<builderVars, peerVars, addrVars, cmdVars>>

\* call_once when the Once is INCOMPLETE: this caller runs the closure.
CallOnceRun(t) ==
    /\ pc[t] = "call_once"
    /\ call_once(ONCE) = "run"
    /\ ONCE' = "RUNNING"
    /\ pc' = [pc EXCEPT ![t] = "closure_box"]
    /\ UNCHANGED <<CONFIG, heap, arg, boxp, ncalls, reads, stored, returned, passed>>
    /\ UNCHANGED <<builderVars, peerVars, addrVars, cmdVars>>

\* call_once when the Once is COMPLETE: the closure, and the Config it
\* owns, are dropped and gcache returns.  While the Once is RUNNING the
\* caller is blocked.
CallOnceSkip(t) ==
    /\ pc[t] = "call_once"
    /\ call_once(ONCE) = "skip"
    /\ arg' = [arg EXCEPT ![t] = None]
    /\ returned' = returned + 1
    /\ pc' = [pc EXCEPT ![t] = "idle"]
    /\ UNCHANGED <<CONFIG, ONCE, heap, boxp, ncalls, reads, stored, passed>>
    /\ UNCHANGED <<builderVars, peerVars, addrVars, cmdVars>>

\* Box::new(config): a fresh allocation into which config is moved.
ClosureBox(t) ==
    /\ pc[t] = "closure_box"
    /\ LET a == Cardinality(DOMAIN heap) + 1
       IN /\ heap' = [x \in DOMAIN heap \cup {a} |->
                        IF x = a THEN Box_new(arg[t][1]) ELSE heap[x]]
          /\ boxp' = [boxp EXCEPT ![t] = a]
    /\ pc' = [pc EXCEPT ![t] = "closure_store"]
    /\ UNCHANGED <<CONFIG, ONCE, arg, ncalls, reads, stored, returned, passed>>
    /\ UNCHANGED <<builderVars, peerVars, addrVars, cmdVars>>

\* CONFIG = mem::transmute(box)
ClosureStore(t) ==
    /\ pc[t] = "closure_store"
    /\ CONFIG' = boxp[t]
    /\ stored' = Append(stored, [t |-> t, config |-> arg[t][1]])
    /\ pc' = [pc EXCEPT ![t] = "once_done"]
    /\ UNCHANGED <<ONCE, heap, arg, boxp, ncalls, reads, returned, passed>>
    /\ UNCHANGED <<builderVars, peerVars, addrVars, cmdVars>>

\* The closure has returned: the Once becomes COMPLETE, waiters wake up and
\* gcache returns.
OnceDone(t) ==
    /\ pc[t] = "once_done"
    /\ ONCE' = "COMPLETE"
    /\ arg' = [arg EXCEPT ![t] = None]
    /\ returned' = returned + 1
    /\ pc' = [pc EXCEPT ![t] = "idle"]
    /\ UNCHANGED <<CONFIG, heap, boxp, ncalls, reads, stored, passed>>
    /\ UNCHANGED <<builderVars, peerVars, addrVars, cmdVars>>

\* gconfig(): the read of CONFIG and the use of the reference.  CONFIG is a
\* plain static mut: a read that is not ordered after the completion of the
\* Once races with the closure and may miss the store, or the contents of
\* the Box behind the pointer.
Gconfig(t) ==
    /\ pc[t] = "idle"
    /\ ncalls < MaxCalls
    /\ ncalls' = ncalls + 1
    /\ \E ptr \in {CONFIG} \cup (IF ONCE # "COMPLETE" THEN {Null} ELSE {}) :
         \E view \in IF ptr = Null THEN {NullDeref}
                     ELSE {heap[ptr]} \cup (IF ONCE # "COMPLETE" THEN {Uninit} ELSE {}) :
            LET r == gconfig(ptr)
            IN reads' = reads \cup
                          {[t |-> t, since |-> returned, wasNull |-> CONFIG = Null,
                            inflight |-> \E u \in Threads : pc[u] # "idle",
                            err |-> r.err, ref |-> r.ref, val |-> view]}
    /\ UNCHANGED <<CONFIG, ONCE, heap, pc, arg, boxp, stored, returned, passed>>
    /\ UNCHANGED <<builderVars, peerVars, addrVars, cmdVars>>

\* ------------------------------------------------------------------------
\* The text operations
\* ------------------------------------------------------------------------
CallSetGossipPeer ==
    /\ peerPc = "input"
    /\ cfg' = set_gossip_peer(cfg, peerIn)
    /\ peerPc' = "done"
    /\ UNCHANGED <<peerIn, prog, bcfg, log, cacheVars, addrVars, cmdVars>>

ParseGossipListenAddr ==
    /\ addrPc = "input"
    /\ addrOut' = GossipListenAddr_from_str(AddrText(addrIn))
    /\ addrPc' = "done"
    /\ UNCHANGED <<addrIn, cacheVars, builderVars, peerVars, cmdVars>>

ParseCommand ==
    /\ cmdPc = "input"
    /\ cmdOut' = Command_from_str(cmdIn)
    /\ cmdPc' = "done"
    /\ UNCHANGED <<cmdIn, cacheVars, builderVars, peerVars, addrVars>>

\* ------------------------------------------------------------------------
\* Specifications
\* ------------------------------------------------------------------------
CacheStart ==
    /\ CONFIG = Null
    /\ ONCE = "INCOMPLETE"
    /\ heap = <<>>
    /\ pc = [t \in Threads |-> "idle"]
    /\ arg = [t \in Threads |-> None]
    /\ boxp = [t \in Threads |-> Null]
    /\ ncalls = 0
    /\ reads = {}
    /\ stored = <<>>
    /\ returned = 0
    /\ passed = {}

BuilderStart ==
    /\ cfg = Config_new
    /\ bcfg = BldrConfig_new
    /\ log = <<>>

PeerIdle == peerIn = <<>> /\ peerPc = "off"

AddrIdle == addrIn = <<>> /\ addrOut = <<>> /\ addrPc = "off"

CmdIdle == cmdIn = <<>> /\ cmdOut = <<>> /\ cmdPc = "off"

Init ==
    /\ CacheStart
    /\ prog = "sup" /\ BuilderStart
    /\ PeerIdle /\ AddrIdle /\ CmdIdle

Next ==
    \E t \in Threads :
        \/ \E c \in Configs : GcacheCall(t, c)
        \/ CallOnceRun(t)
        \/ CallOnceSkip(t)
        \/ ClosureBox(t)
        \/ ClosureStore(t)
        \/ OnceDone(t)
        \/ Gconfig(t)

Spec == Init /\ [][Next]_vars

InitBuilder ==
    /\ CacheStart
    /\ prog \in {"sup", "bldr"} /\ BuilderStart
    /\ PeerIdle /\ AddrIdle /\ CmdIdle

NextBuilder ==
    \/ SetConfigFrom
    \/ SetUpdateStrategy
    \/ SetCommand
    \/ SetGroup
    \/ SetBind
    \/ SetUrl
    \/ SetTopology
    \/ SetGossipListen
    \/ SetHttpListenIp
    \/ SetHttpListenPort
    \/ SetGossipPermanent
    \/ SetGossipPeer
    \/ SetPackage
    \/ SetLocalArtifact
    \/ SetOrganization
    \/ SetRing
    \/ BldrSetCommand
    \/ BldrSetKey
    \/ BldrSetPackage
    \/ BldrSetDeriv
    \/ BldrSetVersion
    \/ BldrSetRelease
    \/ BldrSetPath
    \/ BldrSetGroup
    \/ BldrSetWatch
    \/ BldrSetUrl
    \/ BldrSetTopology

SpecBuilder == InitBuilder /\ [][NextBuilder]_vars

InitPeer ==
    /\ CacheStart
    /\ prog = "sup" /\ BuilderStart
    /\ peerIn \in PeerLists /\ peerPc = "input"
    /\ AddrIdle /\ CmdIdle

NextPeer == CallSetGossipPeer

SpecPeer == InitPeer /\ [][NextPeer]_vars

InitAddr ==
    /\ CacheStart
    /\ prog = "sup" /\ BuilderStart
    /\ PeerIdle /\ CmdIdle
    /\ addrIn \in AddrInputs /\ addrOut = <<>> /\ addrPc = "input"

NextAddr == ParseGossipListenAddr

SpecAddr == InitAddr /\ [][NextAddr]_vars

InitCmd ==
    /\ CacheStart
    /\ prog = "sup" /\ BuilderStart
    /\ PeerIdle /\ AddrIdle
    /\ cmdIn \in CmdInputs /\ cmdOut = <<>> /\ cmdPc = "input"

NextCmd == ParseCommand

SpecCmd == InitCmd /\ [][NextCmd]_vars

\* ------------------------------------------------------------------------
\* Properties
\* ------------------------------------------------------------------------

\* C1: among any number of gcache calls exactly one stores its argument in
\* CONFIG: there is never a second store, as soon as a call has returned
\* CONFIG points to the Box holding the argument of the one storing call,
\* and once the Once is COMPLETE no step changes the Once, CONFIG, the Box
\* or the record of stores.
Thm_C1 ==
    /\ [](/\ Len(stored) <= 1
          /\ returned > 0 =>
                /\ Len(stored) = 1
                /\ CONFIG # Null
                /\ heap[CONFIG] = Formed(stored[1].config))
    /\ [][ONCE = "COMPLETE" =>
             /\ ONCE' = "COMPLETE"
             /\ CONFIG' = CONFIG
             /\ heap' = heap
             /\ stored' = stored]_vars

\* Two gcache calls with different arguments have returned and only one of
\* them stored.
Witness_C1 == returned >= 2 /\ Len(stored) = 1 /\ passed = Configs

ReadsAfter(n) == {r \in reads : r.since >= n}

\* C2: when gcache has been called with A and with B, every gconfig() made
\* after two gcache calls have returned gives a non-null reference to a
\* Config equal to A or to B as a whole, the one CONFIG points to, and all
\* these calls, on any thread and whatever gcache calls come in between,
\* give the same reference and the same value.
Thm_C2 ==
    passed = Configs =>
        /\ \A r \in ReadsAfter(2) :
              /\ r.ref # Null
              /\ ~r.err
              /\ r.val \in {Formed(CfgA), Formed(CfgB)}
              /\ r.ref = CONFIG
              /\ r.val = heap[CONFIG]
        /\ \A r1, r2 \in ReadsAfter(2) : r1.ref = r2.ref /\ r1.val = r2.val

\* Two threads have read the cache after the gcache calls with A and B
\* returned.
Witness_C2 ==
    /\ passed = Configs
    /\ \E r1, r2 \in ReadsAfter(2) : r1.t # r2.t

\* C3: once a gcache call has returned, whichever it is, the Once is
\* COMPLETE and CONFIG points to a fully written Box, and every gconfig()
\* made from then on gives a non-null reference to that fully written Box.
Thm_C3 ==
    /\ returned >= 1 =>
          /\ ONCE = "COMPLETE"
          /\ CONFIG # Null
          /\ heap[CONFIG].kind = "config"
    /\ \A r \in ReadsAfter(1) :
          /\ ~r.wasNull
          /\ r.ref # Null
          /\ r.val.kind = "config"

\* A thread whose own gcache argument was discarded reads the cache after
\* its call returned.
Witness_C3 ==
    /\ Len(stored) = 1
    /\ passed = Configs
    /\ returned >= 2
    /\ \E r \in ReadsAfter(2) : r.t # stored[1].t /\ r.val = Formed(stored[1].config)

\* C4: gconfig() checks nothing: it never reports an error, a call made
\* while CONFIG is still null yields the null reference, and no gconfig()
\* changes CONFIG, the Once, the heap or the record of stores.
Thm_C4 ==
    /\ [](\A r \in reads :
             /\ ~r.err
             /\ r.wasNull => (r.ref = Null /\ r.val = NullDeref))
    /\ [][reads' # reads => UNCHANGED <<CONFIG, ONCE, heap, stored>>]_vars

\* A gconfig() made while the first gcache was in progress got the null
\* reference.
Witness_C4 ==
    \E r \in reads : r.wasNull /\ r.inflight /\ r.ref = Null /\ r.val = NullDeref

HasColon(s) == \E k \in 1..Len(s) : s[k] = ":"

DefaultPortText == <<":", "9", "6", "3", "8">>

\* C5: set_gossip_peer(gp) stores a sequence of the length and order of gp
\* in which an entry without ':' is the entry followed by ":9638" and an
\* entry with a ':' is the entry itself; ["10.0.0.1", "10.0.0.2:8000"] is
\* stored as ["10.0.0.1:9638", "10.0.0.2:8000"].
Thm_C5 ==
    peerPc = "done" =>
        LET out == gossip_peer(cfg)
        IN /\ Len(out) = Len(peerIn)
           /\ \A i \in 1..Len(peerIn) :
                 out[i] = IF HasColon(peerIn[i]) THEN peerIn[i]
                          ELSE peerIn[i] \o DefaultPortText
           /\ peerIn = <<P_10_0_0_1, P_10_0_0_2_8000>> =>
                 out = <<<<"1", "0", ".", "0", ".", "0", ".", "1", ":", "9", "6", "3", "8">>,
                         <<"1", "0", ".", "0", ".", "0", ".", "2", ":", "8", "0", "0", "0">>>>

Witness_C5 ==
    /\ peerPc = "done"
    /\ peerIn = <<P_10_0_0_1, P_10_0_0_2_8000>>
    /\ Len(gossip_peer(cfg)) = 2

\* An entry has an explicit port when it ends in ':' and digits and what is
\* before that ':' is free of ':' or is a bracketed literal.
HasExplicitPort(s) ==
    /\ HasColon(s)
    /\ LET k == CHOOSE j \in 1..Len(s) :
                    s[j] = ":" /\ \A m \in (j + 1)..Len(s) : s[m] # ":"
       IN /\ k < Len(s)
          /\ \A m \in (k + 1)..Len(s) : IsDigit(s[m])
          /\ \/ \A m \in 1..(k - 1) : s[m] # ":"
             \/ (k > 2 /\ s[1] = "[" /\ s[k - 1] = "]")

\* C6: after any sequence of setter calls every entry of gossip_peer()
\* contains an explicit port.
CE_C6 ==
    prog = "sup" =>
        \A i \in 1..Len(gossip_peer(cfg)) : HasExplicitPort(gossip_peer(cfg)[i])

\* The value of a group of a listen address text as an octet, or -1.
OctetOf(txt) ==
    CASE txt = <<"0">> -> 0
      [] txt = <<"1">> -> 1
      [] txt = <<"5">> -> 5
      [] txt = <<"1", "6", "8">> -> 168
      [] txt = <<"1", "9", "2">> -> 192
      [] txt = <<"2", "5", "5">> -> 255
      [] OTHER -> -1

\* The value of a port text as a 16 bit port, or -1.
PortOf(txt) ==
    CASE txt = <<"0">> -> 0
      [] txt = <<"4", "4", "4", "4">> -> 4444
      [] txt = <<"6", "5", "5", "3", "5">> -> 65535
      [] OTHER -> -1

IsIpText(in) ==
    /\ ~in.raw
    /\ Len(in.groups) = 4
    /\ \A i \in 1..4 : OctetOf(in.groups[i]) >= 0

IpOf(in) == [i \in 1..4 |-> OctetOf(in.groups[i])]

\* C7: from_str gives the address and port written in an "ip:port" text,
\* the address with port 9638 for a bare ip, and fails on every other text;
\* a result has four octets and a 16 bit port.
Thm_C7 ==
    addrPc = "done" =>
        /\ IF IsIpText(addrIn) /\ addrIn.port = None
           THEN addrOut = [ok |-> TRUE, val |-> [ip |-> IpOf(addrIn), port |-> 9638]]
           ELSE IF IsIpText(addrIn) /\ PortOf(addrIn.port[1]) >= 0
           THEN addrOut = [ok |-> TRUE,
                           val |-> [ip |-> IpOf(addrIn), port |-> PortOf(addrIn.port[1])]]
           ELSE ~addrOut.ok
        /\ addrOut.ok =>
              /\ Len(addrOut.val.ip) = 4
              /\ \A i \in 1..4 : addrOut.val.ip[i] \in 0..255
              /\ addrOut.val.port \in 0..65535
        /\ AddrText(addrIn) = <<"1", "9", "2", ".", "1", "6", "8", ".", "1", ".", "5">> =>
              addrOut = [ok |-> TRUE, val |-> [ip |-> <<192, 168, 1, 5>>, port |-> 9638]]
        /\ AddrText(addrIn) = <<"1", "9", "2", ".", "1", "6", "8", ".", "1", ".", "5",
                                ":", "4", "4", "4", "4">> =>
              addrOut = [ok |-> TRUE, val |-> [ip |-> <<192, 168, 1, 5>>, port |-> 4444]]
        /\ AddrText(addrIn) \in {A_not_an_ip, <<>>} => ~addrOut.ok

Witness_C7 ==
    /\ addrPc = "done"
    /\ AddrText(addrIn) = <<"1", "9", "2", ".", "1", "6", "8", ".", "1", ".", "5">>
    /\ addrOut.ok

\* The literal of each command.
CanonicalLiteral(c) ==
    CASE c = "Start" -> <<"s", "t", "a", "r", "t">>
      [] c = "ShellBash" -> <<"b", "a", "s", "h">>
      [] c = "ShellSh" -> <<"s", "h">>

\* C8: from_str gives Start, ShellBash and ShellSh on "start", "bash" and
\* "sh", the literal of the result is the text that was parsed, and every
\* other text fails with CommandNotImplemented.
Thm_C8 ==
    cmdPc = "done" =>
        /\ cmdIn = <<"s", "t", "a", "r", "t">> => cmdOut = [ok |-> TRUE, val |-> "Start"]
        /\ cmdIn = <<"b", "a", "s", "h">> => cmdOut = [ok |-> TRUE, val |-> "ShellBash"]
        /\ cmdIn = <<"s", "h">> => cmdOut = [ok |-> TRUE, val |-> "ShellSh"]
        /\ cmdOut.ok => (cmdOut.val \in Command /\ CanonicalLiteral(cmdOut.val) = cmdIn)
        /\ cmdIn \notin {<<"s", "t", "a", "r", "t">>, <<"b", "a", "s", "h">>, <<"s", "h">>} =>
              cmdOut = [ok |-> FALSE, err |-> "CommandNotImplemented"]

Witness_C8 == cmdPc = "done" /\ cmdIn = <<"s", "h">> /\ cmdOut.ok

WasSet(f) == \E i \in 1..Len(log) : log[i].f = f

LastPassed(f) ==
    log[CHOOSE i \in 1..Len(log) :
            log[i].f = f /\ \A j \in (i + 1)..Len(log) : log[j].f # f].v

\* The fields whose accessor gives back what the setter was given.
SupPlainFieldsAgree ==
    /\ WasSet("set_config_from") => config_from(cfg) = LastPassed("set_config_from")
    /\ WasSet("set_update_strategy") =>
          update_strategy(cfg) = LastPassed("set_update_strategy")
    /\ WasSet("set_command") => command(cfg) = LastPassed("set_command")
    /\ WasSet("set_group") => group(cfg) = LastPassed("set_group")
    /\ WasSet("set_bind") => bind(cfg) = LastPassed("set_bind")
    /\ WasSet("set_url") => url(cfg) = LastPassed("set_url")
    /\ WasSet("set_topology") => topology(cfg) = LastPassed("set_topology")
    /\ WasSet("set_gossip_listen") => gossip_listen(cfg) = LastPassed("set_gossip_listen")
    /\ WasSet("set_http_listen_ip") =>
          http_listen_addr(cfg).ip = LastPassed("set_http_listen_ip")
    /\ WasSet("set_http_listen_port") =>
          http_listen_addr(cfg).port = LastPassed("set_http_listen_port")
    /\ WasSet("set_gossip_permanent") =>
          gossip_permanent(cfg) = LastPassed("set_gossip_permanent")
    /\ WasSet("set_package") => package(cfg) = LastPassed("set_package")
    /\ WasSet("set_local_artifact") =>
          local_artifact(cfg) = <<LastPassed("set_local_artifact")>>
    /\ WasSet("set_organization") => organization(cfg) = <<LastPassed("set_organization")>>
    /\ WasSet("set_ring") => ring(cfg) = <<LastPassed("set_ring")>>

BldrFieldsAgree ==
    /\ WasSet("set_command") => bldr_command(bcfg) = LastPassed("set_command")
    /\ WasSet("set_key") => bldr_key(bcfg) = LastPassed("set_key")
    /\ WasSet("set_package") => bldr_package(bcfg) = LastPassed("set_package")
    /\ WasSet("set_deriv") => bldr_deriv(bcfg) = LastPassed("set_deriv")
    /\ WasSet("set_version") => bldr_version(bcfg) = LastPassed("set_version")
    /\ WasSet("set_release") => bldr_release(bcfg) = LastPassed("set_release")
    /\ WasSet("set_path") => bldr_path(bcfg) = LastPassed("set_path")
    /\ WasSet("set_group") => bldr_group(bcfg) = LastPassed("set_group")
    /\ WasSet("set_watch") => bldr_watch(bcfg) = LastPassed("set_watch")
    /\ WasSet("set_url") => bldr_url(bcfg) = LastPassed("set_url")
    /\ WasSet("set_topology") => bldr_topology(bcfg) = LastPassed("set_topology")

ChainedAgrees ==
    /\ prog = "sup" => cfg = Chained(Config_new, log)
    /\ prog = "bldr" => bcfg = BldrChained(BldrConfig_new, log)

Thm_C10 ==
    (prog = "sup" /\ log = <<>>) =>
        /\ topology(cfg) = "Standalone"
        /\ command(cfg) = "Start"
        /\ url(cfg) = ""
        /\ gossip_listen(cfg) = [ip |-> <<0, 0, 0, 0>>, port |-> 9638]
        /\ gossip_permanent(cfg) = FALSE
        /\ bind(cfg) = <<>>
        /\ gossip_peer(cfg) = <<>>
        /\ local_artifact(cfg) = <<>>
        /\ organization(cfg) = <<>>
        /\ ring(cfg) = <<>>
        /\ config_from(cfg) = <<>>

Witness_C10 == prog = "sup" /\ log = <<>> /\ Len(gossip_peer(cfg)) = 0

====
